---------------------------- MODULE Spec2Model ----------------------------
(***************************************************************************)
(* A model of grafanarama: the schema introspection and default            *)
(* normalisation of schema_utils.py, the construction and serialisation of *)
(* DashboardObject (__init__.py) and the HTTP client of apiclient.py.      *)
(*                                                                         *)
(* Python values are tagged records [t |-> tag, v |-> payload]; a Python   *)
(* dict is a function from its keys (strings) to values, a Python list is  *)
(* a sequence.  JSON-schema dicts are functions from their keys ("type",   *)
(* "anyOf", "oneOf", "$ref", "properties", "$defs") to their values.       *)
(***************************************************************************)
EXTENDS Integers, Sequences, FiniteSets, TLC

VARIABLES
    schema,        \* model_class.model_json_schema() of the class handed to schema_utils
    data,          \* the mapping object the caller passes as `data` (the caller still holds it after the call)
    given,         \* the value `data` had when apply_schema_defaults was called
    array_fields,  \* local of apply_schema_defaults: get_array_fields(model_class)
    nested,        \* local of apply_schema_defaults: get_nested_array_fields(model_class)
    result,        \* the mapping apply_schema_defaults returned
    upc,           \* "ready" before the call, "returned" after it
    values,        \* what the validator was handed: Dict(the keywords), or a value that is no mapping
    obj,           \* the DashboardObject: its spec, metadata and status
    serialized,    \* what serialize_model returned for obj
    dpc,           \* "none", then "built" or "raised", then "serialized"
    client,        \* the GrafanaClient: its private fields and its headers
    results,       \* client._results: the response of the last request answered
    sent,          \* the requests the last call handed to `requests`, in order
    ret,           \* what the last call returned, or the exception it raised (None while it runs)
    call,          \* the last method called on the client, and its arguments
    answers,       \* what `requests` gave back to the last call's requests, in order
    id,            \* local of send_datasource: what get_datasource_id_byname returned
    cpc            \* "none" before the client is constructed, then "ready";
                   \* "send_datasource" between the lookup and the write of send_datasource

schemaVars == <<schema, data, given, array_fields, nested, result, upc>>

dashVars == <<values, obj, serialized, dpc>>

clientVars == <<client, results, sent, ret, call, answers, id, cpc>>

vars == <<schemaVars, dashVars, clientVars>>

-----------------------------------------------------------------------------
(* Python values *)

None == [t |-> "none", v |-> 0]

List(s) == [t |-> "list", v |-> s]

Dict(f) == [t |-> "dict", v |-> f]

Str(s) == [t |-> "str", v |-> s]

Num(n) == [t |-> "int", v |-> n]

Bool(b) == [t |-> "bool", v |-> b]

EmptyDict == [k \in {} |-> None]

isinstance_dict(x) == x.t = "dict"

Last(s) == s[Len(s)]

Min(S) == CHOOSE x \in S : \A y \in S : x <= y

-----------------------------------------------------------------------------
(* schema_utils.py *)

\* item.get('type') == ty
TypeIs(item, ty) == "type" \in DOMAIN item /\ item["type"] = ty

is_array_type(s) ==
    IF "anyOf" \in DOMAIN s
    THEN \E i \in DOMAIN s["anyOf"] : TypeIs(s["anyOf"][i], "array")
    ELSE IF "oneOf" \in DOMAIN s
    THEN \E i \in DOMAIN s["oneOf"] : TypeIs(s["oneOf"][i], "array")
    ELSE TypeIs(s, "array")

is_object_type(s) ==
    IF "anyOf" \in DOMAIN s
    THEN \E i \in DOMAIN s["anyOf"] :
            TypeIs(s["anyOf"][i], "object") \/ "$ref" \in DOMAIN s["anyOf"][i]
    ELSE IF "oneOf" \in DOMAIN s
    THEN \E i \in DOMAIN s["oneOf"] :
            TypeIs(s["oneOf"][i], "object") \/ "$ref" \in DOMAIN s["oneOf"][i]
    ELSE TypeIs(s, "object") \/ "$ref" \in DOMAIN s

\* schema.get('properties', {})
Properties(s) == IF "properties" \in DOMAIN s THEN s["properties"] ELSE EmptyDict

\* schema.get('$defs', {})
Defs(s) == IF "$defs" \in DOMAIN s THEN s["$defs"] ELSE EmptyDict

\* The list the code builds holds each property name once, in the order of the
\* schema's properties; it is read only by membership, so it is kept as a set.
get_array_fields(s) ==
    {f \in DOMAIN Properties(s) : is_array_type(Properties(s)[f])}

\* A "$ref" string is the sequence of its '/'-separated segments, so that
\* ref.split('/')[-1] is its last segment.  NoRef stands for `ref = None`;
\* the code only tests `ref` for truth, which None and '' both fail.
NoRef == ""

\* Lines 47-54: the direct "$ref", else the first "anyOf" branch that has one.
ResolveRef(fs) ==
    IF "$ref" \in DOMAIN fs THEN Last(fs["$ref"])
    ELSE IF "anyOf" \in DOMAIN fs
    THEN LET withRef == {i \in DOMAIN fs["anyOf"] : "$ref" \in DOMAIN fs["anyOf"][i]}
         IN  IF withRef = {} THEN NoRef ELSE Last(fs["anyOf"][Min(withRef)]["$ref"])
    ELSE NoRef

\* Lines 57-61: the array-typed properties of the referenced definition.
NestedFieldsOf(s, ref) ==
    {nf \in DOMAIN Properties(Defs(s)[ref]) : is_array_type(Properties(Defs(s)[ref])[nf])}

\* Whether lines 45-64 give the field an entry in `nested`.
HasNestedEntry(s, f) ==
    /\ is_object_type(Properties(s)[f])
    /\ ResolveRef(Properties(s)[f]) # NoRef
    /\ ResolveRef(Properties(s)[f]) \in DOMAIN Defs(s)
    /\ NestedFieldsOf(s, ResolveRef(Properties(s)[f])) # {}

get_nested_array_fields(s) ==
    [f \in {g \in DOMAIN Properties(s) : HasNestedEntry(s, g)} |->
        NestedFieldsOf(s, ResolveRef(Properties(s)[f]))]

\* Lines 76-78: a present, null top-level array field becomes [].
TopLevelDefaults(d, afields) ==
    [k \in DOMAIN d |-> IF k \in afields /\ d[k] = None THEN List(<<>>) ELSE d[k]]

\* FillNested with the `elif nested_field not in` branch (lines 92-93) left out.
FillNested_NullOnly(parent, nfields) ==
    [k \in DOMAIN parent |->
        IF k \in nfields /\ parent[k] = None THEN List(<<>>) ELSE parent[k]]

\* FillNested with the `is None` branch (lines 90-91) left out.
FillNested_AbsentOnly(parent, nfields) ==
    [k \in DOMAIN parent \cup nfields |->
        IF k \in nfields /\ k \notin DOMAIN parent THEN List(<<>>) ELSE parent[k]]

\* Lines 89-93 on one parent dict: a known sub-field that is null or absent becomes [].
FillNested(parent, nfields) ==
    [k \in DOMAIN parent \cup nfields |->
        IF k \in nfields /\ (k \notin DOMAIN parent \/ parent[k] = None)
        THEN List(<<>>)
        ELSE parent[k]]

\* Lines 82-93 for one key of `result`.
NestedDefault(val, nfields) ==
    IF val = None THEN Dict([f \in nfields |-> List(<<>>)])
    ELSE IF isinstance_dict(val) THEN Dict(FillNested(val.v, nfields))
    ELSE val

NestedDefaults(d, nst) ==
    [k \in DOMAIN d |-> IF k \in DOMAIN nst THEN NestedDefault(d[k], nst[k]) ELSE d[k]]

apply_schema_defaults(d, s) ==
    NestedDefaults(TopLevelDefaults(d, get_array_fields(s)), get_nested_array_fields(s))

\* `result = data.copy()` is a shallow copy: a dict held by `data` is the same
\* object in `result`, so the assignments of lines 91-93 also change it in
\* `data`; the top-level assignments change `result` alone.
DataAfterCall(d, s) ==
    [k \in DOMAIN d |-> IF isinstance_dict(d[k]) THEN apply_schema_defaults(d, s)[k] ELSE d[k]]

-----------------------------------------------------------------------------
(* The schemas and mappings the schema utilities are run on *)

MaxBranches == 2

RefTo(name) == ("$ref" :> <<"#", "$defs", name>>)

TypeSchema(ty) == ("type" :> ty)

\* The branches a union may hold.
Items == {TypeSchema("array"), TypeSchema("null"), RefTo("X"), RefTo("Y"), RefTo("Z")}

Branches == UNION {[1..n -> Items] : n \in 1..MaxBranches}

FieldSchemas ==
    {TypeSchema("array"), TypeSchema("object"), TypeSchema("string"),
     RefTo("X"), RefTo("Y"), RefTo("Z"), EmptyDict}
    \cup {("anyOf" :> b) : b \in Branches}
    \cup {("oneOf" :> b) : b \in Branches}

\* The second field takes a few schemas only, to keep the product small.
OtherFieldSchemas == {TypeSchema("array"), RefTo("X"), TypeSchema("string")}

\* The definition table: X has a sequence-typed sub-field, Y has none, Z is not in it.
DefTable ==
    ("X" :> ("properties" :> ("list" :> ("anyOf" :> <<TypeSchema("array"), TypeSchema("null")>>)
                              @@ "name" :> TypeSchema("string")))
     @@ "Y" :> ("properties" :> ("name" :> TypeSchema("string"))))

Schemas ==
    {("properties" :> ("a" :> fa @@ "b" :> fb) @@ "$defs" :> DefTable) :
        fa \in FieldSchemas, fb \in OtherFieldSchemas}

SubDicts ==
    {Dict(f) : f \in UNION {[ks -> {None, List(<<>>), List(<<Str("x")>>), Str("n")}] :
                                ks \in SUBSET {"list", "name"}}}

ValuesA == {None, List(<<>>), List(<<Str("x")>>), Str("s")} \cup SubDicts

ValuesB == {None, Dict("list" :> None)}

Inputs ==
    {EmptyDict} \cup {("a" :> va) : va \in ValuesA} \cup {("b" :> vb) : vb \in ValuesB}
    \cup {("a" :> va @@ "b" :> vb) : va \in ValuesA, vb \in ValuesB}

-----------------------------------------------------------------------------
(* grafanarama.core.dashboard: the Spec, Metadata, Status and Dashboard     *)
(* classes.  A model instance is [t |-> "model", v |-> its fields by field *)
(* name, s |-> the names of the fields that were set].                     *)

SpecFields ==
    {"id", "uid", "title", "description", "revision", "gnetId", "tags", "timezone",
     "editable", "graphTooltip", "time", "timepicker", "fiscalYearStartMonth",
     "liveNow", "weekStart", "refresh", "schemaVersion", "version", "panels",
     "templating", "annotations", "links", "snapshot"}

\* The value each field has when it is not set; schemaVersion is required and has none.
SpecDefaults ==
    [f \in SpecFields |->
        CASE f = "timezone" -> Str("browser")
          [] f = "editable" -> Bool(TRUE)
          [] f \in {"graphTooltip", "fiscalYearStartMonth"} -> Num(0)
          [] OTHER -> None]

\* The fields of the classes of the object-typed Spec fields, by field name.
ModelFields ==
    ("time" :> {"from_", "to"} @@ "timepicker" :> {}
     @@ "templating" :> {"list"} @@ "annotations" :> {"list"})

\* The key a field is read from: `from_` carries the alias "from".
Alias(sf) == IF sf = "from_" THEN "from" ELSE sf

Model(fields, set) == [t |-> "model", v |-> fields, s |-> set]

\* The fields of DataSourceRef and of AnnotationQuery, the class of the items
\* of annotations.list: those the tests construct and parse (test_dashboard.py
\* lines 22-28, 89-100, 169-171).
DataSourceRefFields == {"type", "uid"}

AnnotationQueryFields ==
    {"name", "datasource", "enable", "hide", "iconColor", "type", "builtIn"}

\* DataSourceRef(**d)
DataSourceRef_init(d) ==
    Model([sf \in DataSourceRefFields |-> IF sf \in DOMAIN d THEN d[sf] ELSE None],
          DOMAIN d \cap DataSourceRefFields)

\* AnnotationQuery(**d)
AnnotationQuery_init(d) ==
    Model([sf \in AnnotationQueryFields |->
              IF sf \notin DOMAIN d THEN None
              ELSE IF sf = "datasource" /\ d[sf].t = "dict" THEN DataSourceRef_init(d[sf].v)
              ELSE d[sf]],
          DOMAIN d \cap AnnotationQueryFields)

\* Validation of a sub-field: the mappings in annotations.list become
\* AnnotationQuery instances.
ValidateSubField(f, sf, val) ==
    IF f = "annotations" /\ sf = "list" /\ val.t = "list"
    THEN List([i \in DOMAIN val.v |->
                  IF val.v[i].t = "dict" THEN AnnotationQuery_init(val.v[i].v) ELSE val.v[i]])
    ELSE val

\* Validation of one keyword of Spec(**content): a mapping given for an
\* object-typed field becomes an instance of the field's class.
ValidateField(f, val) ==
    IF f \in DOMAIN ModelFields /\ val.t = "dict"
    THEN Model([sf \in ModelFields[f] |->
                    IF Alias(sf) \in DOMAIN val.v
                    THEN ValidateSubField(f, sf, val.v[Alias(sf)]) ELSE None],
               {sf \in ModelFields[f] : Alias(sf) \in DOMAIN val.v})
    ELSE val

\* Spec(**content) raises unless the required integer schemaVersion is given.
SpecValid(content) ==
    "schemaVersion" \in DOMAIN content /\ content["schemaVersion"].t = "int"

\* Spec(**content)
Spec_init(content) ==
    [fields |-> [f \in SpecFields |->
                    IF f \in DOMAIN content THEN ValidateField(f, content[f])
                    ELSE SpecDefaults[f]],
     fields_set |-> DOMAIN content \cap SpecFields]

\* model_dump of a field's value: an instance dumps as a mapping keyed by
\* field name (no alias), with its unset fields left out under exclude_unset.
RECURSIVE DumpValue(_, _)
DumpValue(val, exclude_unset) ==
    IF val.t = "model"
    THEN Dict([sf \in (IF exclude_unset THEN val.s ELSE DOMAIN val.v) |->
                  DumpValue(val.v[sf], exclude_unset)])
    ELSE IF val.t = "list"
    THEN List([i \in DOMAIN val.v |-> DumpValue(val.v[i], exclude_unset)])
    ELSE val

\* spec.model_dump(mode='json', exclude_unset=False) / spec.model_dump(exclude_unset=True)
Spec_model_dump(spec, exclude_unset) ==
    [f \in (IF exclude_unset THEN spec.fields_set ELSE SpecFields) |->
        DumpValue(spec.fields[f], exclude_unset)]

SpecValue(spec) == [t |-> "Spec", v |-> spec]

Optional(s) == ("anyOf" :> <<s, TypeSchema("null")>>)

\* Spec.model_json_schema()
SpecSchema ==
    ("properties" :>
        [f \in SpecFields |->
            CASE f \in {"tags", "panels", "links"} -> Optional(TypeSchema("array"))
              [] f = "time" -> Optional(RefTo("TimeRange"))
              [] f = "timepicker" -> Optional(RefTo("TimePicker"))
              [] f = "templating" -> Optional(RefTo("Templating"))
              [] f = "annotations" -> Optional(RefTo("AnnotationContainer"))
              [] f = "snapshot" -> Optional(RefTo("Snapshot"))
              [] f = "schemaVersion" -> TypeSchema("integer")
              [] f \in {"id", "revision", "gnetId", "graphTooltip",
                        "fiscalYearStartMonth", "version"} -> Optional(TypeSchema("integer"))
              [] f \in {"editable", "liveNow"} -> Optional(TypeSchema("boolean"))
              [] OTHER -> Optional(TypeSchema("string"))])
    @@ ("$defs" :>
        ("TimeRange" :> ("properties" :> ("from" :> TypeSchema("string")
                                          @@ "to" :> TypeSchema("string")))
         @@ "TimePicker" :> ("properties" :> EmptyDict)
         @@ "Templating" :> ("properties" :> ("list" :> Optional(TypeSchema("array"))))
         @@ "AnnotationContainer" :>
                ("properties" :> ("list" :> Optional(TypeSchema("array"))))
         @@ "Snapshot" :> ("properties" :> EmptyDict)))

MetadataFields ==
    {"uid", "creationTimestamp", "deletionTimestamp", "finalizers", "resourceVersion",
     "labels", "updateTimestamp", "createdBy", "updatedBy", "extraFields"}

StatusFields == {"operatorStates", "additionalFields"}

Timestamp == Str("2024-03-20T22:00:00Z")

\* Metadata(**d) raises when a timestamp field holds something that is no timestamp.
MetadataValid(d) ==
    \A k \in DOMAIN d \cap {"creationTimestamp", "deletionTimestamp", "updateTimestamp"} :
        d[k] \in {None, Timestamp}

\* Metadata(**d)
Metadata_init(d) ==
    [t |-> "Metadata",
     v |-> [f \in MetadataFields |-> IF f \in DOMAIN d THEN d[f] ELSE None]]

\* Status(**d)
Status_init(d) ==
    [t |-> "Status",
     v |-> [f \in StatusFields |-> IF f \in DOMAIN d THEN d[f] ELSE None]]

\* What the plain Dashboard(metadata, spec, status) serializes to: its three parts.
Dashboard_model_dump(metadata, spec, status) ==
    [metadata |-> Dict(metadata.v),
     spec |-> Spec_model_dump(spec, FALSE),
     status |-> Dict(status.v)]

-----------------------------------------------------------------------------
(* grafanarama/__init__.py: DashboardObject *)

DefaultSchemaVersion == 39

\* Line 23
FlatFields(vals) == [k \in DOMAIN vals \ {"spec", "metadata", "status"} |-> vals[k]]

\* EnsureSchemaVersion with lines 26-27 left out.
EnsureSchemaVersion_Skip(spec_content) == spec_content

\* Lines 26-27
EnsureSchemaVersion(spec_content) ==
    IF "schemaVersion" \notin DOMAIN spec_content
    THEN spec_content @@ ("schemaVersion" :> Num(DefaultSchemaVersion))
    ELSE spec_content

\* Lines 31-39
SpecDictOf(spec_value) ==
    IF spec_value.t = "Spec" THEN Spec_model_dump(spec_value.v, TRUE)
    ELSE IF isinstance_dict(spec_value) THEN spec_value.v
    ELSE EmptyDict

\* {**under, **over}
Merge(under, over) ==
    [k \in DOMAIN under \cup DOMAIN over |-> IF k \in DOMAIN over THEN over[k] ELSE under[k]]

\* Lines 23-42: the keywords Spec is built from.
SpecContent(vals) ==
    IF "spec" \in DOMAIN vals
    THEN Merge(SpecDictOf(vals["spec"]), EnsureSchemaVersion(FlatFields(vals)))
    ELSE EnsureSchemaVersion(FlatFields(vals))

\* MetadataValue with the exception of Metadata(**metadata_value) not caught:
\* nothing is kept of a mapping Metadata cannot be built from.
MetadataValue_FailureNotKept(vals) ==
    IF "metadata" \notin DOMAIN vals \/ vals["metadata"] = None THEN Dict(EmptyDict)
    ELSE IF isinstance_dict(vals["metadata"]) /\ DOMAIN vals["metadata"].v # {}
    THEN IF MetadataValid(vals["metadata"].v)
         THEN Metadata_init(vals["metadata"].v)
         ELSE Dict(EmptyDict)
    ELSE vals["metadata"]

\* Lines 46-55
MetadataValue(vals) ==
    IF "metadata" \notin DOMAIN vals \/ vals["metadata"] = None THEN Dict(EmptyDict)
    ELSE IF isinstance_dict(vals["metadata"]) /\ DOMAIN vals["metadata"].v # {}
    THEN IF MetadataValid(vals["metadata"].v)
         THEN Metadata_init(vals["metadata"].v)
         ELSE vals["metadata"]
    ELSE vals["metadata"]

\* Lines 58-62
StatusValue(vals) ==
    IF "status" \notin DOMAIN vals \/ vals["status"] = None THEN Status_init(EmptyDict)
    ELSE IF isinstance_dict(vals["status"]) THEN Status_init(vals["status"].v)
    ELSE vals["status"]

\* The validator (lines 14-70): a value that is no mapping is returned as it
\* is (lines 18-19); a mapping gives the three parts, or Spec(**spec_content)
\* raises (line 65) when GatherRaises holds.
gather_fields_into_spec(vals) ==
    IF ~isinstance_dict(vals) THEN vals
    ELSE [spec |-> Spec_init(SpecContent(vals.v)),
          metadata |-> MetadataValue(vals.v),
          status |-> StatusValue(vals.v)]

GatherRaises(vals) == isinstance_dict(vals) /\ ~SpecValid(SpecContent(vals.v))

\* An instance of DashboardObject as a value
DashboardObjectValue(o) == [t |-> "DashboardObject", v |-> o]

\* Lines 82-87
TimeCase(d) ==
    IF "time" \notin DOMAIN d \/ d["time"] = None
    THEN Dict("from" :> Str("now-6h") @@ "to" :> Str("now"))
    ELSE IF isinstance_dict(d["time"])
            /\ "from_" \in DOMAIN d["time"].v /\ "from" \notin DOMAIN d["time"].v
    THEN Dict([k \in (DOMAIN d["time"].v \ {"from_"}) \cup {"from"} |->
                    IF k = "from" THEN d["time"].v["from_"] ELSE d["time"].v[k]])
    ELSE d["time"]

\* Lines 90-99: the value a key gets when it is absent or null.
OrDefault(d, k, default) == IF k \notin DOMAIN d \/ d[k] = None THEN default ELSE d[k]

\* SpecialCases with the weekStart correction of lines 98-99 left out.
SpecialCases_NoWeekStart(d) ==
    [k \in DOMAIN d \cup {"time", "timepicker", "version"} |->
        CASE k = "time" -> TimeCase(d)
          [] k = "timepicker" -> OrDefault(d, k, Dict(EmptyDict))
          [] k = "version" -> OrDefault(d, k, Num(1))
          [] OTHER -> d[k]]

\* Lines 80-99
SpecialCases(d) ==
    [k \in DOMAIN d \cup {"time", "timepicker", "version", "weekStart"} |->
        CASE k = "time" -> TimeCase(d)
          [] k = "timepicker" -> OrDefault(d, k, Dict(EmptyDict))
          [] k = "version" -> OrDefault(d, k, Num(1))
          [] k = "weekStart" -> OrDefault(d, k, Str(""))
          [] OTHER -> d[k]]

\* serialize_model returning the whole document, as the plain Dashboard does.
serialize_model_Envelope(o) == Dashboard_model_dump(o.metadata, o.spec, o.status)

serialize_model(o) ==
    SpecialCases(apply_schema_defaults(Spec_model_dump(o.spec, FALSE), SpecSchema))

-----------------------------------------------------------------------------
(* grafanarama/apiclient.py: GrafanaClient.  A credential string is the     *)
(* sequence of its characters, Chars(<<" ", "k">>), so that strip() acts.  *)

Chars(s) == [t |-> "chars", v |-> s]

Raised(e) == [t |-> "raised", v |-> e]

\* Python's truth of a value: None, '', 0, {}, [], () and False are false.
Truthy(x) ==
    CASE x.t = "none" -> FALSE
      [] x.t \in {"chars", "list", "tuple"} -> x.v # <<>>
      [] x.t = "str" -> x.v # ""
      [] x.t = "int" -> x.v # 0
      [] x.t = "bool" -> x.v
      [] x.t = "dict" -> DOMAIN x.v # {}
      [] OTHER -> TRUE

\* The characters str.strip() removes (str.isspace): space, tab, newline,
\* carriage return, form feed, and vertical tab, the separators 0x1c-0x1f and
\* the Unicode spaces, which are written here by their Python escapes.
Whitespace ==
    {" ", "\t", "\n", "\r", "\f", "\\x0b", "\\x1c", "\\x1d", "\\x1e", "\\x1f",
     "\\x85", "\\xa0", "\\u1680", "\\u2000", "\\u2001", "\\u2002", "\\u2003",
     "\\u2004", "\\u2005", "\\u2006", "\\u2007", "\\u2008", "\\u2009", "\\u200a",
     "\\u2028", "\\u2029", "\\u202f", "\\u205f", "\\u3000"}

RECURSIVE lstrip(_)
lstrip(s) == IF s # <<>> /\ Head(s) \in Whitespace THEN lstrip(Tail(s)) ELSE s

RECURSIVE rstrip(_)
rstrip(s) ==
    IF s # <<>> /\ s[Len(s)] \in Whitespace THEN rstrip(SubSeq(s, 1, Len(s) - 1)) ELSE s

\* str.strip()
strip(s) == rstrip(lstrip(s))

\* requests.codes.ok
codes_ok == 200

BaseHeaders ==
    ("Content-Type" :> Str("application/json") @@ "Accept" :> Str("application/json"))

\* GrafanaClient.__init__ (lines 15-42); the warning of line 42 changes no state.
GrafanaClient_init(host, port, apiKey, auth_user, auth_pass, use_https) ==
    [_host |-> host, _port |-> port,
     _apiKey |-> IF Truthy(apiKey) THEN Chars(strip(apiKey.v)) ELSE apiKey,
     _auth_user |-> auth_user, _auth_pass |-> auth_pass, _use_https |-> use_https,
     headers |-> IF Truthy(apiKey)
                 THEN BaseHeaders @@ ("X-Grafana-API-Key" :> Chars(strip(apiKey.v)))
                 ELSE BaseHeaders]

\* The auth property (lines 48-53)
auth(c) ==
    IF Truthy(c._auth_user) /\ Truthy(c._auth_pass)
    THEN [t |-> "tuple", v |-> <<c._auth_user, c._auth_pass>>]
    ELSE None

\* The base_url and server properties (lines 59-66)
base_url(c) ==
    [protocol |-> IF c._use_https THEN "https" ELSE "http", host |-> c._host, port |-> c._port]

\* f"{self.base_url}{dest}", dest by its '/'-separated segments
Url(c, dest) == [base |-> base_url(c), path |-> dest]

\* What the client hands to requests.<method>(url, data=..., headers=..., auth=...)
Request(c, method, url, body) ==
    [method |-> method, url |-> url, data |-> body, headers |-> c.headers, auth |-> auth(c)]

\* A call's outcome: the response now in _results, the value returned (or the
\* exception raised) and the requests issued.
Outcome(res, rv, reqs) == [results |-> res, ret |-> rv, sent |-> reqs]

TransportError == [t |-> "failed", v |-> "ConnectionError"]

\* A requests.<method> call whose response is returned from but not stored.
RequestCall_ResponseNotStored(res, req, out, rv) ==
    IF out = TransportError
    THEN Outcome(res, Raised("ConnectionError"), <<req>>)
    ELSE Outcome(res, rv, <<req>>)

\* One requests.<method> call: an exception of the transport propagates and
\* leaves _results as it was; else the response is stored and rv, computed
\* from it (status_code, json), is returned.
RequestCall(res, req, out, rv) ==
    IF out = TransportError
    THEN Outcome(res, Raised("ConnectionError"), <<req>>)
    ELSE Outcome(out, rv, <<req>>)

IsOk(resp) == Bool(resp.status_code = codes_ok)

\* delete (lines 112-116)
delete(c, res, url, out) == RequestCall(res, Request(c, "DELETE", url, None), out, IsOk(out))

JsonIfOk(resp) == IF resp.status_code = codes_ok THEN resp.json ELSE None

\* get (lines 118-124); _print_error (lines 136-165) only prints.
get(c, res, url, out) == RequestCall(res, Request(c, "GET", url, None), out, JsonIfOk(out))

\* post (lines 126-134)
post(c, res, url, body, out) == RequestCall(res, Request(c, "POST", url, body), out, IsOk(out))

\* put (lines 167-173)
put(c, res, url, body, out) == RequestCall(res, Request(c, "PUT", url, body), out, IsOk(out))

\* send_dashboard (lines 68-72)
send_dashboard(c, res, dashboard, overwrite, message, out) ==
    post(c, res, Url(c, <<"api", "dashboards", "db">>),
         Dict("dashboard" :> dashboard @@ "overwrite" :> Bool(overwrite)
              @@ "message" :> message), out)

\* result.get(key, None) of a call that went through get(): None when the
\* result is false, the exception when it raised.
GetKey(o, key) ==
    IF o.ret.t = "raised" THEN o
    ELSE [o EXCEPT !.ret = IF Truthy(o.ret) /\ key \in DOMAIN o.ret.v
                           THEN o.ret.v[key] ELSE None]

\* get_datasource_id_byname (lines 98-103)
get_datasource_id_byname(c, res, name, out) ==
    GetKey(get(c, res, Url(c, <<"api", "datasources", "name", name>>), out), "id")

\* get_dashboard (lines 105-110)
get_dashboard(c, res, slug, out) ==
    GetKey(get(c, res, Url(c, <<"api", "dashboards", "db", slug>>), out), "dashboard")

\* Lines 76-81: the datasource's name; a pydantic model is [t |-> "model", ...].
DatasourceName(ds) ==
    IF ds.t \in {"model", "dict"}
    THEN IF "name" \in DOMAIN ds.v THEN ds.v["name"] ELSE None
    ELSE Raised("ValueError")

\* Lines 76-86 of send_datasource: the name is checked, then the id is looked
\* up.  The outcome's ret is the exception raised, else the id found.
send_datasource_lookup(c, res, ds, out) ==
    LET name == DatasourceName(ds)
    IN  IF name.t = "raised" \/ ~Truthy(name) THEN Outcome(res, Raised("ValueError"), <<>>)
        ELSE get_datasource_id_byname(c, res, name, out)

\* Lines 87-96 of send_datasource: update the datasource found, else create it.
send_datasource_write(c, res, ds, found_id, out) ==
    IF Truthy(found_id)
    THEN put(c, res, Url(c, <<"api", "datasources", found_id>>), ds, out)
    ELSE post(c, res, Url(c, <<"api", "datasources">>), ds, out)

\* send_datasource (lines 74-96), from call to return
send_datasource(c, res, ds, out1, out2) ==
    LET found == send_datasource_lookup(c, res, ds, out1)
        then == send_datasource_write(c, found.results, ds, found.ret, out2)
    IN  IF found.ret.t = "raised" THEN found
        ELSE [then EXCEPT !.sent = found.sent \o then.sent]

-----------------------------------------------------------------------------
(* The clients, requests and server answers *)

ApiKeys ==
    {None, Chars(<<>>), Chars(<<" ">>), Chars(<<"k">>), Chars(<<" ", "\t", "k", " ", "\n">>)}

Users == {None, Chars(<<>>), Chars(<<"u">>)}

Passwords == {None, Chars(<<"p">>)}

\* The bodies of a 200 answer, and the statuses of the other answers (whose
\* body is an error message).
Bodies ==
    {Dict(EmptyDict), Dict("id" :> Num(7)), Dict("id" :> Num(0)),
     Dict("dashboard" :> Str("d"))}

ErrorStatusCodes == {201, 401, 404, 500}

Responses ==
    [status_code : {codes_ok}, json : Bodies]
    \cup [status_code : ErrorStatusCodes, json : {Dict("message" :> Str("m"))}]

Answers == Responses \cup {TransportError}

Paths == {<<"api", "health">>, <<"api", "datasources">>}

Payloads == {Str("d1"), Dict("name" :> Str("prom"))}

DatasourceNames == {Str("prom")}

Datasources ==
    {Dict("name" :> Str("prom")), Dict("name" :> Str("")), Dict("name" :> List(<<>>)),
     Dict("type" :> Str("loki")),
     Model("name" :> Str("prom"), {"name"}), Model("type" :> Str("loki"), {"type"}),
     Str("prom")}

-----------------------------------------------------------------------------
(* The mappings DashboardObject is constructed from *)

MaxFlat == 2

MaxSpecKeys == 2

InputFields ==
    {"title", "schemaVersion", "tags", "annotations", "time", "timepicker", "version",
     "weekStart"}

\* The fields given inside `spec`.
NestedInputFields == {"title", "schemaVersion", "tags"}

FieldChoices ==
    [f \in InputFields |->
        CASE f = "title" -> {Str("A"), Str("B")}
          [] f = "schemaVersion" -> {Num(39), Num(40), None}
          [] f = "tags" -> {None, List(<<Str("t")>>)}
          [] f = "annotations" -> {None, Dict("list" :> List(<<>>))}
          [] f = "time" -> {Dict("from" :> Str("now-1h") @@ "to" :> Str("now"))}
          [] f = "timepicker" -> {Dict(EmptyDict)}
          [] f = "version" -> {Num(2)}
          [] f = "weekStart" -> {Str("monday")}]

RECURSIVE MapsOver(_)
MapsOver(ks) ==
    IF ks = {} THEN {EmptyDict}
    ELSE LET k == CHOOSE x \in ks : TRUE
         IN  {(k :> v) @@ m : v \in FieldChoices[k], m \in MapsOver(ks \ {k})}

\* The mappings of the given fields with at most n keys.
FieldMaps(fields, n) ==
    UNION {MapsOver(ks) : ks \in {x \in SUBSET fields : Cardinality(x) <= n}}

\* The mappings given as `spec`; a schemaVersion inside them is an integer.
NestedMaps ==
    {m \in FieldMaps(NestedInputFields, MaxSpecKeys) :
        "schemaVersion" \in DOMAIN m => m["schemaVersion"] # None}

\* The `spec` keyword: absent, a mapping, a built Spec, or None.
SpecKeyword ==
    {EmptyDict}
    \cup {("spec" :> Dict(m)) : m \in NestedMaps}
    \cup {("spec" :> SpecValue(Spec_init(m))) : m \in {x \in NestedMaps : SpecValid(x)}}
    \cup {("spec" :> None)}

MetadataArgs ==
    {Dict(EmptyDict), Dict("uid" :> Str("u1")), Dict("creationTimestamp" :> Str("soon")),
     Metadata_init("uid" :> Str("u1"))}

StatusArgs == {Dict(EmptyDict), Status_init(EmptyDict)}

\* The metadata and status keywords: each given or not.
Envelopes ==
    {m @@ t :
        m \in {EmptyDict} \cup {("metadata" :> x) : x \in MetadataArgs},
        t \in {EmptyDict} \cup {("status" :> x) : x \in StatusArgs}}

\* Neither given, or both given built (as the tests' fixtures do).
BuiltEnvelopes ==
    {EmptyDict,
     "metadata" :> Metadata_init("uid" :> Str("u1")) @@ "status" :> Status_init(EmptyDict)}

\* The annotation of the fixture dashboard_empty (lines 89-100)
BuiltInAnnotation ==
    Dict("builtIn" :> Num(1)
         @@ "datasource" :> Dict("type" :> Str("grafana") @@ "uid" :> Str("-- Grafana --"))
         @@ "enable" :> Bool(TRUE) @@ "hide" :> Bool(TRUE)
         @@ "iconColor" :> Str("rgba(0, 211, 255, 1)")
         @@ "name" :> Str("Annotations & Alerts") @@ "type" :> Str("dashboard"))

\* The fixture dashboard_empty of tests/test_dashboard.py (lines 85-126), and
\* the same with its title, tags and annotations varied.
ServerPayloads ==
    {("annotations" :> an @@ "editable" :> Bool(TRUE) @@ "fiscalYearStartMonth" :> Num(0)
      @@ "graphTooltip" :> Num(0) @@ "id" :> Num(1) @@ "links" :> List(<<>>)
      @@ "panels" :> List(<<>>) @@ "schemaVersion" :> Num(39) @@ "tags" :> tg
      @@ "templating" :> Dict("list" :> List(<<>>))
      @@ "time" :> Dict("from" :> Str("now-6h") @@ "to" :> Str("now"))
      @@ "timepicker" :> Dict(EmptyDict) @@ "timezone" :> Str("browser")
      @@ "title" :> ti @@ "uid" :> Str("fdgaok30vxmo0b") @@ "version" :> Num(1)
      @@ "weekStart" :> Str("")) :
        an \in {Dict("list" :> List(<<BuiltInAnnotation>>)), Dict("list" :> List(<<>>)),
                Dict(EmptyDict), None},
        tg \in {List(<<>>), List(<<Str("t")>>), None},
        ti \in {Str("New dashboard"), Str("A")}}

\* Values that are no mapping
NotMappings == {None, Str("x"), Num(5), Bool(TRUE), List(<<Str("a")>>)}

ConstructorInputs ==
    {f @@ s @@ e : f \in FieldMaps(InputFields, MaxFlat), s \in SpecKeyword,
                   e \in BuiltEnvelopes}
    \cup {s @@ e : s \in SpecKeyword, e \in Envelopes}
    \cup ServerPayloads

-----------------------------------------------------------------------------
(* Specification of the schema utilities *)

SchemaIdle ==
    /\ schema = EmptyDict
    /\ data = EmptyDict
    /\ given = EmptyDict
    /\ array_fields = {}
    /\ nested = EmptyDict
    /\ result = EmptyDict
    /\ upc = "ready"

NoObject == [spec |-> None, metadata |-> None, status |-> None]

DashIdle ==
    /\ values = None
    /\ obj = NoObject
    /\ serialized = EmptyDict
    /\ dpc = "none"

NoCall == [op |-> "none", args |-> <<>>]

ClientIdle ==
    /\ client = None
    /\ results = None
    /\ sent = <<>>
    /\ ret = None
    /\ call = NoCall
    /\ answers = <<>>
    /\ id = None
    /\ cpc = "none"

SchemaInit ==
    /\ schema \in Schemas
    /\ data \in Inputs
    /\ given = data
    /\ array_fields = {}
    /\ nested = EmptyDict
    /\ result = EmptyDict
    /\ upc = "ready"
    /\ DashIdle
    /\ ClientIdle

\* result = apply_schema_defaults(data, model_class)
ApplySchemaDefaults ==
    /\ upc = "ready"
    /\ given' = data
    /\ array_fields' = get_array_fields(schema)
    /\ nested' = get_nested_array_fields(schema)
    /\ result' = apply_schema_defaults(data, schema)
    /\ data' = DataAfterCall(data, schema)
    /\ upc' = "returned"
    /\ UNCHANGED <<schema, dashVars, clientVars>>

SchemaNext == ApplySchemaDefaults

SchemaSpec == SchemaInit /\ [][SchemaNext]_vars

-----------------------------------------------------------------------------
(* Specification of DashboardObject *)

DashInit == SchemaIdle /\ DashIdle /\ ClientIdle

\* DashboardObject(**kwargs), or DashboardObject.model_validate(x): pydantic
\* hands x to the validator and builds the object from the mapping it
\* returns; what it returns for an x that is neither a mapping nor an
\* instance, pydantic rejects.
Construct ==
    /\ dpc = "none"
    /\ \E vals \in {Dict(m) : m \in ConstructorInputs} \cup NotMappings :
        /\ values' = vals
        /\ IF GatherRaises(vals) \/ gather_fields_into_spec(vals) \in NotMappings
           THEN obj' = NoObject /\ dpc' = "raised"
           ELSE obj' = gather_fields_into_spec(vals) /\ dpc' = "built"
    /\ UNCHANGED <<serialized, schemaVars, clientVars>>

\* DashboardObject.model_validate(obj): the validator returns the instance it
\* is handed (lines 18-19), and pydantic returns that same instance.
Revalidate ==
    /\ dpc \in {"built", "serialized"}
    /\ values' = DashboardObjectValue(obj)
    /\ obj' = gather_fields_into_spec(DashboardObjectValue(obj)).v
    /\ dpc' = "built"
    /\ UNCHANGED <<serialized, schemaVars, clientVars>>

\* obj.model_dump(), which pydantic hands to serialize_model
Serialize ==
    /\ dpc \in {"built", "serialized"}
    /\ serialized' = serialize_model(obj)
    /\ dpc' = "serialized"
    /\ UNCHANGED <<values, obj, schemaVars, clientVars>>

DashNext == Construct \/ Revalidate \/ Serialize

DashSpec == DashInit /\ [][DashNext]_vars

-----------------------------------------------------------------------------
(* Specification of GrafanaClient *)

ClientInit == SchemaIdle /\ DashIdle /\ ClientIdle

\* GrafanaClient(apiKey=..., auth_user=..., auth_pass=...), the rest by default
NewClient ==
    /\ cpc = "none"
    /\ \E k \in ApiKeys, u \in Users, p \in Passwords :
        client' = GrafanaClient_init("localhost", 3000, k, u, p, FALSE)
    /\ results' = None
    /\ cpc' = "ready"
    /\ UNCHANGED <<sent, ret, call, answers, id, schemaVars, dashVars>>

\* The call's outcome becomes the client's state; each request issued got
\* one of outs, in order.
Finish(o, op, args, outs) ==
    /\ results' = o.results
    /\ ret' = o.ret
    /\ sent' = o.sent
    /\ call' = [op |-> op, args |-> args]
    /\ answers' = SubSeq(outs, 1, Len(o.sent))
    /\ id' = None
    /\ UNCHANGED <<client, cpc, schemaVars, dashVars>>

Delete ==
    /\ cpc = "ready"
    /\ \E path \in Paths, out \in Answers :
        Finish(delete(client, results, Url(client, path), out),
               "delete", [url |-> Url(client, path)], <<out>>)

Get ==
    /\ cpc = "ready"
    /\ \E path \in Paths, out \in Answers :
        Finish(get(client, results, Url(client, path), out),
               "get", [url |-> Url(client, path)], <<out>>)

Post ==
    /\ cpc = "ready"
    /\ \E path \in Paths, body \in Payloads, out \in Answers :
        Finish(post(client, results, Url(client, path), body, out),
               "post", [url |-> Url(client, path), data |-> body], <<out>>)

Put ==
    /\ cpc = "ready"
    /\ \E path \in Paths, body \in Payloads, out \in Answers :
        Finish(put(client, results, Url(client, path), body, out),
               "put", [url |-> Url(client, path), data |-> body], <<out>>)

SendDashboard ==
    /\ cpc = "ready"
    /\ \E overwrite \in BOOLEAN, out \in Answers :
        Finish(send_dashboard(client, results, Str("d1"), overwrite, Str(""), out),
               "send_dashboard",
               [dashboard |-> Str("d1"), overwrite |-> overwrite, message |-> Str("")],
               <<out>>)

GetDashboard ==
    /\ cpc = "ready"
    /\ \E out \in Answers :
        Finish(get_dashboard(client, results, "slug", out),
               "get_dashboard", [slug |-> "slug"], <<out>>)

GetDatasourceIdByname ==
    /\ cpc = "ready"
    /\ \E name \in DatasourceNames, out \in Answers :
        Finish(get_datasource_id_byname(client, results, name, out),
               "get_datasource_id_byname", [name |-> name], <<out>>)

\* send_datasource up to the return of get_datasource_id_byname (line 86): it
\* raises, or goes on to the write with the id it found.
SendDatasourceLookup ==
    /\ cpc = "ready"
    /\ \E ds \in Datasources, out \in Answers :
        LET found == send_datasource_lookup(client, results, ds, out)
        IN  /\ results' = found.results
            /\ sent' = found.sent
            /\ call' = [op |-> "send_datasource", args |-> [datasource |-> ds]]
            /\ answers' = SubSeq(<<out>>, 1, Len(found.sent))
            /\ IF found.ret.t = "raised"
               THEN ret' = found.ret /\ id' = None /\ cpc' = "ready"
               ELSE ret' = None /\ id' = found.ret /\ cpc' = "send_datasource"
    /\ UNCHANGED <<client, schemaVars, dashVars>>

\* send_datasource from line 87: the PUT or POST, and the return.
SendDatasourceWrite ==
    /\ cpc = "send_datasource"
    /\ \E out \in Answers :
        LET o == send_datasource_write(client, results, call.args.datasource, id, out)
        IN  /\ results' = o.results
            /\ ret' = o.ret
            /\ sent' = sent \o o.sent
            /\ answers' = Append(answers, out)
    /\ id' = None
    /\ cpc' = "ready"
    /\ UNCHANGED <<client, call, schemaVars, dashVars>>

ClientNext ==
    \/ NewClient
    \/ Delete
    \/ Get
    \/ Post
    \/ Put
    \/ SendDashboard
    \/ GetDashboard
    \/ GetDatasourceIdByname
    \/ SendDatasourceLookup
    \/ SendDatasourceWrite

ClientSpec == ClientInit /\ [][ClientNext]_vars

-----------------------------------------------------------------------------
(* Properties of the schema utilities (SchemaSpec) *)

\* C1: the mapping apply_schema_defaults returns has no null at a key that
\* get_array_fields reports, nor at a sub-key that get_nested_array_fields
\* reports under a parent that is present in the mapping.
C1_NoNullAtSequenceFields ==
    upc = "returned" =>
        /\ \A k \in array_fields \cap DOMAIN result : result[k] # None
        /\ \A p \in DOMAIN nested \cap DOMAIN result :
              isinstance_dict(result[p]) =>
                  \A sf \in nested[p] \cap DOMAIN result[p].v : result[p].v[sf] # None

\* A call that met a null sequence field and a null sequence sub-field.
C1_Witness ==
    /\ upc = "returned"
    /\ "b" \in array_fields /\ "b" \in DOMAIN given /\ given["b"] = None
    /\ "a" \in DOMAIN nested /\ "a" \in DOMAIN given /\ isinstance_dict(given["a"])
    /\ "list" \in DOMAIN given["a"].v /\ given["a"].v["list"] = None
    /\ result["a"].v["list"] = List(<<>>) /\ result["b"] = List(<<>>)

\* C10 as claimed: a present field with known sequence sub-fields, when null,
\* becomes an object holding exactly [] for each known sub-field; when an
\* object, gets [] at each known sub-field that is null or absent and keeps
\* every other sub-field.
C10_NestedDefaultsAsClaimed ==
    upc = "returned" =>
        \A p \in DOMAIN nested \cap DOMAIN given :
            /\ given[p] = None =>
                  /\ isinstance_dict(result[p])
                  /\ DOMAIN result[p].v = nested[p]
                  /\ \A sf \in nested[p] : result[p].v[sf] = List(<<>>)
            /\ isinstance_dict(given[p]) =>
                  /\ isinstance_dict(result[p])
                  /\ DOMAIN result[p].v = DOMAIN given[p].v \cup nested[p]
                  /\ \A k \in DOMAIN result[p].v :
                        result[p].v[k] =
                            IF k \in nested[p] /\ (k \notin DOMAIN given[p].v \/ given[p].v[k] = None)
                            THEN List(<<>>)
                            ELSE given[p].v[k]

\* C10, amended: the same, but a null field that is itself sequence-typed has
\* already become [] (the top-level rule runs first) and stays [].
C10_NestedDefaults ==
    upc = "returned" =>
        \A p \in DOMAIN nested \cap DOMAIN given :
            /\ (given[p] = None /\ p \notin array_fields) =>
                  /\ isinstance_dict(result[p])
                  /\ DOMAIN result[p].v = nested[p]
                  /\ \A sf \in nested[p] : result[p].v[sf] = List(<<>>)
            /\ (given[p] = None /\ p \in array_fields) => result[p] = List(<<>>)
            /\ isinstance_dict(given[p]) =>
                  /\ isinstance_dict(result[p])
                  /\ DOMAIN result[p].v = DOMAIN given[p].v \cup nested[p]
                  /\ \A k \in DOMAIN result[p].v :
                        result[p].v[k] =
                            IF k \in nested[p] /\ (k \notin DOMAIN given[p].v \/ given[p].v[k] = None)
                            THEN List(<<>>)
                            ELSE given[p].v[k]

\* A null parent was replaced by {list: []}, and an object lacking `list`
\* gained it while keeping its other sub-field.
C10_Witness ==
    /\ upc = "returned"
    /\ {"a", "b"} \subseteq DOMAIN nested \cap DOMAIN given
    /\ given["b"] = None /\ result["b"] = Dict("list" :> List(<<>>))
    /\ given["a"] = Dict("name" :> Str("n"))
    /\ result["a"] = Dict("list" :> List(<<>>) @@ "name" :> Str("n"))

\* The names a field's schema references: directly, or in a branch of its
\* anyOf or oneOf union.
RefsOf(fs) ==
    (IF "$ref" \in DOMAIN fs THEN {Last(fs["$ref"])} ELSE {})
    \cup UNION {{Last(fs[u][i]["$ref"]) : i \in {j \in DOMAIN fs[u] : "$ref" \in DOMAIN fs[u][j]}} :
                    u \in DOMAIN fs \cap {"anyOf", "oneOf"}}

\* The sequence-typed sub-fields of a sub-schema
SequenceSubFields(sub) ==
    {nf \in DOMAIN Properties(sub) : is_array_type(Properties(sub)[nf])}

\* The referenced sub-schemas found in the definition table that have a
\* sequence-typed sub-field
UsableRefs(s, fs) ==
    {r \in RefsOf(fs) \cap DOMAIN Defs(s) : SequenceSubFields(Defs(s)[r]) # {}}

\* C15: get_nested_array_fields has an entry for a top-level field exactly
\* when the field is object-typed and references, directly or through any
\* branch of an anyOf or oneOf union, a sub-schema of the definition table
\* with a sequence-typed sub-field; the entry is the set of those sub-fields.
C15_NestedEntryForEveryResolvableRef ==
    upc = "returned" =>
        \A f \in DOMAIN Properties(schema) :
            LET fs == Properties(schema)[f]
            IN  /\ f \in DOMAIN nested <=>
                       (is_object_type(fs) /\ UsableRefs(schema, fs) # {})
                /\ f \in DOMAIN nested =>
                       \E r \in UsableRefs(schema, fs) :
                           nested[f] = SequenceSubFields(Defs(schema)[r])

\* C16: apply_schema_defaults does not mutate its input: after the call the
\* mapping the caller passed, nested objects included, equals its value
\* before the call.
C16_InputNotMutated ==
    upc = "returned" => data = given

-----------------------------------------------------------------------------
(* Properties of DashboardObject (DashSpec) *)

\* The keywords the object was constructed from
kwargs == values.v

\* An object was built from a mapping.
Built == dpc \in {"built", "serialized"} /\ isinstance_dict(values)

\* The same constructor input with its flat fields moved under `spec`.
Nest(vals) ==
    [k \in DOMAIN vals \cap {"metadata", "status"} |-> vals[k]]
    @@ ("spec" :> Dict(FlatFields(vals)))

\* C2: fields given flat and the same fields given under `spec` build the same
\* Spec, schemaVersion included.
C2_FlatEqualsNested ==
    (Built /\ "spec" \notin DOMAIN kwargs) =>
        /\ ~GatherRaises(Dict(Nest(kwargs)))
        /\ obj.spec = gather_fields_into_spec(Dict(Nest(kwargs))).spec

GivenSpec(vals) == "spec" \in DOMAIN vals /\ vals["spec"].t \in {"dict", "Spec"}

\* C4: a key given both flat and inside `spec` holds the flat value; a key
\* given only inside `spec` holds the nested value.
C4_FlatWinsNestedKept ==
    (Built /\ GivenSpec(kwargs)) =>
        \A k \in DOMAIN SpecDictOf(kwargs["spec"]) :
            obj.spec.fields[k] =
                IF k \in DOMAIN kwargs THEN ValidateField(k, kwargs[k])
                ELSE ValidateField(k, SpecDictOf(kwargs["spec"])[k])

NoSchemaVersionGiven(vals) ==
    /\ "schemaVersion" \notin DOMAIN vals
    /\ GivenSpec(vals) => "schemaVersion" \notin DOMAIN SpecDictOf(vals["spec"])

\* C5: an object constructed without any schemaVersion has schemaVersion 39,
\* a schemaVersion given flat is kept, the field is never absent, and a
\* construction never fails for want of a schemaVersion.
C5_SchemaVersionDefault ==
    /\ Built =>
        /\ "schemaVersion" \in obj.spec.fields_set
        /\ obj.spec.fields["schemaVersion"].t = "int"
        /\ NoSchemaVersionGiven(kwargs) => obj.spec.fields["schemaVersion"] = Num(39)
        /\ "schemaVersion" \in DOMAIN kwargs =>
              obj.spec.fields["schemaVersion"] = kwargs["schemaVersion"]
    /\ (dpc = "raised" /\ isinstance_dict(values)) => "schemaVersion" \in DOMAIN kwargs

\* An object built from a title alone.
C5_Witness ==
    /\ Built
    /\ DOMAIN kwargs = {"title"}
    /\ obj.spec.fields["schemaVersion"] = Num(39)

\* Constructed as the fixture dashboard_object is: built metadata, spec and status.
FromBuiltParts ==
    /\ isinstance_dict(values)
    /\ DOMAIN kwargs = {"metadata", "spec", "status"}
    /\ kwargs["metadata"].t = "Metadata"
    /\ kwargs["spec"].t = "Spec"
    /\ kwargs["status"].t = "Status"

\* C6: the serialized DashboardObject built from M, S and T equals the
\* serialized `spec` part of the plain Dashboard built from M, S and T.
C6_SerializedEqualsPlainSpec ==
    (dpc = "serialized" /\ FromBuiltParts) =>
        serialized =
            Dashboard_model_dump(kwargs["metadata"], kwargs["spec"].v, kwargs["status"]).spec

\* C7: what serialize_model returns has only Spec fields at its root: no
\* metadata, status or spec key, and the Spec's title and schemaVersion as
\* top-level keys.
C7_OnlySpecFieldsAtRoot ==
    dpc = "serialized" =>
        /\ DOMAIN serialized \cap {"metadata", "status", "spec"} = {}
        /\ DOMAIN serialized \subseteq SpecFields
        /\ {"title", "schemaVersion"} \subseteq DOMAIN serialized
        /\ serialized["title"] = obj.spec.fields["title"]
        /\ serialized["schemaVersion"] = obj.spec.fields["schemaVersion"]

\* An object with metadata, status and a title, serialized.
C7_Witness ==
    /\ dpc = "serialized"
    /\ isinstance_dict(values)
    /\ {"metadata", "status"} \subseteq DOMAIN kwargs
    /\ obj.metadata.t = "Metadata"
    /\ serialized["title"] = Str("A")

FourKeys == {"time", "timepicker", "version", "weekStart"}

\* C8: the four keys are present and non-null in every serialized output; a
\* Spec that sets only schemaVersion serializes with the four fixed defaults;
\* a non-null value the caller gave for one of them is the value serialized.
C8_FixedDefaults ==
    dpc = "serialized" =>
        /\ \A k \in FourKeys : k \in DOMAIN serialized /\ serialized[k] # None
        /\ obj.spec.fields_set = {"schemaVersion"} =>
              /\ serialized["time"] = Dict("from" :> Str("now-6h") @@ "to" :> Str("now"))
              /\ serialized["timepicker"] = Dict(EmptyDict)
              /\ serialized["version"] = Num(1)
              /\ serialized["weekStart"] = Str("")
        /\ isinstance_dict(values) =>
              \A k \in FourKeys \cap DOMAIN kwargs :
                  kwargs[k] # None => serialized[k] = kwargs[k]

\* A Spec with schemaVersion alone, serialized.
C8_Witness ==
    /\ dpc = "serialized"
    /\ obj.spec.fields_set = {"schemaVersion"}
    /\ serialized["weekStart"] = Str("")
    /\ serialized["timepicker"] = Dict(EmptyDict)

\* Whether the default rules leave the payload's value for key k as it is.
NeedsNoDefault(vals, k) ==
    /\ vals[k] # None
    /\ k \in {"templating", "annotations"} =>
          "list" \in DOMAIN vals[k].v /\ vals[k].v["list"] # None

\* A server-shaped payload with no null and no missing list in it.
FullPayload ==
    /\ isinstance_dict(values)
    /\ kwargs \in ServerPayloads
    /\ \A k \in DOMAIN kwargs : NeedsNoDefault(kwargs, k)

\* C9: parsing a fully-specified flat payload and serializing the result
\* yields exactly the payload.
C9_RoundTripIsExact == (dpc = "serialized" /\ FullPayload) => serialized = kwargs

\* The constructor was given a non-empty mapping as `metadata`.
MetadataMappingGiven ==
    /\ isinstance_dict(values)
    /\ "metadata" \in DOMAIN kwargs
    /\ isinstance_dict(kwargs["metadata"])
    /\ kwargs["metadata"].v # EmptyDict

\* C14: for a non-empty `metadata` mapping Metadata cannot be built from (and
\* spec and status input that is valid) gather_fields_into_spec returns
\* normally, with the raw mapping unchanged as the metadata value; when
\* Metadata can be built from the mapping, the built Metadata is the value.
C14_MetadataFailureDeferred ==
    MetadataMappingGiven =>
        /\ ~GatherRaises(values) => dpc \in {"built", "serialized"}
        /\ dpc \in {"built", "serialized"} =>
              obj.metadata = IF MetadataValid(kwargs["metadata"].v)
                             THEN Metadata_init(kwargs["metadata"].v)
                             ELSE kwargs["metadata"]

\* An object was built from a metadata mapping Metadata rejects.
C14_Witness ==
    /\ dpc = "built"
    /\ MetadataMappingGiven
    /\ ~MetadataValid(kwargs["metadata"].v)
    /\ obj.metadata = kwargs["metadata"]
    /\ "fields" \in DOMAIN obj.spec

-----------------------------------------------------------------------------
(* Properties of GrafanaClient (ClientSpec) *)

\* C3: every request of a client constructed with an API key and basic-auth
\* user and password carries the X-Grafana-API-Key header and no basic-auth
\* credentials; no request has both schemes.
C3_ApiKeyExcludesBasicAuth ==
    \A i \in DOMAIN sent :
        /\ ("X-Grafana-API-Key" \in DOMAIN client.headers
            /\ Truthy(client._auth_user) /\ Truthy(client._auth_pass)) =>
              /\ "X-Grafana-API-Key" \in DOMAIN sent[i].headers
              /\ sent[i].auth = None
        /\ ~("X-Grafana-API-Key" \in DOMAIN sent[i].headers /\ sent[i].auth # None)

\* The requests of the last call that used the given method
RequestsBy(method) == {i \in DOMAIN sent : sent[i].method = method}

\* The datasource handed to send_datasource has a name.
Named(ds) ==
    /\ ds.t \in {"dict", "model"}
    /\ "name" \in DOMAIN ds.v
    /\ ds.v["name"].t = "str"
    /\ ds.v["name"].v # ""

\* The server's answer to the lookup by name says the datasource exists: 200
\* with the datasource, which has an id.
Exists(answer) ==
    /\ answer # TransportError
    /\ answer.status_code = 200
    /\ "id" \in DOMAIN answer.json.v

\* The server's answer to the lookup by name says there is none: 404.
NotFound(answer) == answer # TransportError /\ answer.status_code = 404

\* C11: send_datasource looks the datasource up by name; if the server has
\* one of that name, whatever its id, it issues exactly one PUT to
\* /api/datasources/{id} and no POST; if the server has none, exactly one
\* POST to /api/datasources and no PUT; a datasource without a name is
\* rejected with no request issued.
C11_UpsertByName ==
    (call.op = "send_datasource" /\ cpc = "ready") =>
        LET ds == call.args.datasource
        IN  IF ~Named(ds)
            THEN sent = <<>> /\ ret = Raised("ValueError")
            ELSE /\ sent # <<>>
                 /\ sent[1].method = "GET"
                 /\ sent[1].url = Url(client, <<"api", "datasources", "name", ds.v["name"]>>)
                 /\ Exists(answers[1]) =>
                        /\ Cardinality(RequestsBy("PUT")) = 1
                        /\ RequestsBy("POST") = {}
                        /\ sent[2].url =
                             Url(client, <<"api", "datasources", answers[1].json.v["id"]>>)
                 /\ NotFound(answers[1]) =>
                        /\ Cardinality(RequestsBy("POST")) = 1
                        /\ RequestsBy("PUT") = {}
                        /\ sent[2].url = Url(client, <<"api", "datasources">>)

WritePrimitives == {"post", "put", "delete"}

\* The HTTP status is a success status (2xx).
Is2xx(status_code) == status_code \in 200..299

\* C12: post, put and delete answered by the server return a boolean, never
\* an exception: true for every 2xx status, false for every other status.
C12_WritesReturnSuccessFlag ==
    (call.op \in WritePrimitives /\ answers[1] # TransportError) =>
        ret = Bool(Is2xx(answers[1].status_code))

Primitives == {"get", "post", "put", "delete"}

\* C13: send_dashboard answered with 401 returns False without raising and
\* leaves that response in client.results (results.status_code is 401);
\* after any get, post, put or delete the server answered, client.results is
\* the response of that request.
C13_ResultsHoldLastResponse ==
    /\ (call.op = "send_dashboard" /\ answers[1] # TransportError
         /\ answers[1].status_code = 401) =>
            /\ ret = Bool(FALSE)
            /\ results = answers[1]
            /\ results.status_code = 401
    /\ (call.op \in Primitives /\ answers[1] # TransportError) =>
            results = answers[1]

\* send_dashboard was answered with 401.
C13_Witness ==
    /\ call.op = "send_dashboard"
    /\ Len(sent) = 1
    /\ sent[1].method = "POST"
    /\ answers[1] # TransportError
    /\ answers[1].status_code = 401


=============================================================================
